---- MODULE Spec2Model ----
(***************************************************************************)
(* Model of gmail_app_password_tester.py: the input classifier             *)
(* (read_accounts), the two login probes (test_imap, test_smtp), the       *)
(* per-credential verifier (test_one), the sequential loop and the         *)
(* ThreadPoolExecutor / as_completed scheduler of main, post_result and    *)
(* write_report.                                                           *)
(*                                                                         *)
(* Strings are sequences of one-character strings, so that strip() is      *)
(* computed.  Time is counted in ticks of the inter-protocol pause (0.5 s).*)
(* Every thread has its own sleep countdown: time.sleep(d) blocks the      *)
(* calling thread for d ticks and nobody else.                             *)
(***************************************************************************)
EXTENDS Integers, Sequences, FiniteSets, Bags, TLC

\* ---------------------------------------------------------------- bounds
MaxRows == 3
MaxConcurrency == 2
MaxDelay == 1

\* ------------------------------------------------------ program constants
\* inter_proto_pause = 0.5 s is one tick; one second is two ticks.
InterProtoPause == 1
TicksPerSecond == 2
\* enumerate(csv.DictReader(f), start=2): the header is row 1.
FirstDataRow == 2

Max(a, b) == IF a >= b THEN a ELSE b

\* ------------------------------------------------------------- strings
None == <<"None">>
Whitespace == {" ", "\t"}

\* (x or ""): None and "" both become "".
OrEmpty(x) == IF x = None THEN <<>> ELSE x

RECURSIVE LStrip(_)
LStrip(s) ==
  IF s # <<>> /\ Head(s) \in Whitespace THEN LStrip(Tail(s)) ELSE s

RECURSIVE RStrip(_)
RStrip(s) ==
  IF s # <<>> /\ s[Len(s)] \in Whitespace
  THEN RStrip(SubSeq(s, 1, Len(s) - 1))
  ELSE s

\* str.strip()
Strip(s) == RStrip(LStrip(s))

\* Mutant: the row numbered from the reader's 0-based position plus one,
\* without the header.
RowPlaceholderNoHeader(i) == <<"(row ", ToString(i - 1), ")">>

\* f"(row {i})"
RowPlaceholder(i) == <<"(row ", ToString(i), ")">>

REASON_EMAIL == <<"missing email">>
REASON_PW == <<"missing app_password">>

\* ------------------------------------------------------- read_accounts
\* Mutant: the emptiness test made on the raw fields, without strip().
IsSkipNoStrip(r) == OrEmpty(r.email) = <<>> \/ OrEmpty(r.app_password) = <<>>

\* One iteration of the loop of read_accounts on the row at position k of
\* the DictReader (i = k + 1): the row's skip entry or its valid pair.
\* "row" is bookkeeping of the model: the data row the entry came from.
IsSkip(r) ==
  LET email == Strip(OrEmpty(r.email))
      pw == Strip(OrEmpty(r.app_password))
  IN  email = <<>> \/ pw = <<>>

\* Mutant: the app_password tested first.
SkipEntryPwFirst(r, k) ==
  LET email == Strip(OrEmpty(r.email))
      pw == Strip(OrEmpty(r.app_password))
      i == k + FirstDataRow - 1
  IN  [email |-> IF email # <<>> THEN email ELSE RowPlaceholder(i),
       reason |-> IF pw = <<>> THEN REASON_PW ELSE REASON_EMAIL,
       row |-> k]

SkipEntry(r, k) ==
  LET email == Strip(OrEmpty(r.email))
      i == k + FirstDataRow - 1
  IN  [email |-> IF email # <<>> THEN email ELSE RowPlaceholder(i),
       reason |-> IF email = <<>> THEN REASON_EMAIL ELSE REASON_PW,
       row |-> k]

ValidEntry(r, k) ==
  [email |-> Strip(OrEmpty(r.email)),
   pw |-> Strip(OrEmpty(r.app_password)),
   row |-> k]

\* Mutant: a row with a missing email kept among the valid pairs.
RECURSIVE ReadValidPwOnly(_, _)
ReadValidPwOnly(t, k) ==
  IF k > Len(t) THEN <<>>
  ELSE IF Strip(OrEmpty(t[k].app_password)) = <<>> THEN ReadValidPwOnly(t, k + 1)
  ELSE <<ValidEntry(t[k], k)>> \o ReadValidPwOnly(t, k + 1)

RECURSIVE ReadValid(_, _)
ReadValid(t, k) ==
  IF k > Len(t) THEN <<>>
  ELSE IF IsSkip(t[k]) THEN ReadValid(t, k + 1)
  ELSE <<ValidEntry(t[k], k)>> \o ReadValid(t, k + 1)

RECURSIVE ReadSkipped(_, _)
ReadSkipped(t, k) ==
  IF k > Len(t) THEN <<>>
  ELSE IF IsSkip(t[k]) THEN <<SkipEntry(t[k], k)>> \o ReadSkipped(t, k + 1)
  ELSE ReadSkipped(t, k + 1)

\* ------------------------------------------------------------- probes
\* The environment of one credential names, for each connection attempt,
\* the step that fails ("none": no step fails), and the log() call whose
\* print raises (it can raise only when --verbose prints at all).
ImapSteps == <<"log31", "connect", "log34", "login", "log36", "noop", "logout">>
SslSteps == <<"log46", "connect", "log48", "login">>
TlsSteps == <<"connect", "ehlo1", "starttls", "ehlo2", "log62", "login">>

StepFails(step, fault, e, verbose) ==
  \/ step = fault
  \/ verbose /\ step = e.log

\* Index of the first failing step of an attempt, 0 when none fails.
FirstFail(steps, fault, e, verbose) ==
  LET bad == {j \in 1..Len(steps) : StepFails(steps[j], fault, e, verbose)}
  IN  IF bad = {} THEN 0 ELSE CHOOSE j \in bad : \A m \in bad : j <= m

\* Mutant: a failing NOOP (or logout) not counted as a failure.
test_imap_login_only(e, verbose) ==
  LET f == FirstFail(ImapSteps, e.imap, e, verbose)
  IN  IF f = 0 \/ ImapSteps[f] \in {"noop", "logout"}
      THEN <<TRUE, <<>>>> ELSE <<FALSE, <<ImapSteps[f]>>>>

\* test_imap: everything is inside try/except Exception.
test_imap(e, verbose) ==
  LET f == FirstFail(ImapSteps, e.imap, e, verbose)
  IN  IF f = 0 THEN <<TRUE, <<>>>> ELSE <<FALSE, <<ImapSteps[f]>>>>

\* Mutant: quit() outside its own try, so that a failing quit counts as a
\* failure of the attempt.
test_smtp_quit_unguarded(e, verbose) ==
  LET S1 == SslSteps \o <<"quit">>
      S2 == TlsSteps \o <<"quit">>
      f1 == FirstFail(S1, e.ssl, e, verbose)
      f2 == FirstFail(S2, e.tls, e, verbose)
  IN  IF f1 = 0 THEN [kind |-> "return", ok |-> TRUE, err |-> <<>>]
      ELSE IF verbose /\ e.log = "log56"
      THEN [kind |-> "raise", ok |-> FALSE, err |-> <<"log56">>]
      ELSE IF f2 = 0 THEN [kind |-> "return", ok |-> TRUE, err |-> <<>>]
      ELSE [kind |-> "return", ok |-> FALSE,
            err |-> <<"SSL:", S1[f1], "; STARTTLS:", S2[f2]>>]

\* test_smtp: SSL on 465, then STARTTLS on 587.  A failing quit() after a
\* login is swallowed.  The log() call of line 56 sits in the except
\* handler, outside both try blocks: if it raises, the exception leaves
\* test_smtp.
test_smtp(e, verbose) ==
  LET f1 == FirstFail(SslSteps, e.ssl, e, verbose)
      f2 == FirstFail(TlsSteps, e.tls, e, verbose)
  IN  IF f1 = 0 THEN [kind |-> "return", ok |-> TRUE, err |-> <<>>]
      ELSE IF verbose /\ e.log = "log56"
      THEN [kind |-> "raise", ok |-> FALSE, err |-> <<"log56">>]
      ELSE IF f2 = 0 THEN [kind |-> "return", ok |-> TRUE, err |-> <<>>]
      ELSE [kind |-> "return", ok |-> FALSE,
            err |-> <<"SSL:", SslSteps[f1], "; STARTTLS:", TlsSteps[f2]>>]

\* The operations a probe performs, in order: entering a try block, each
\* step up to the first failing one, the logout/quit that follows, the
\* return.  c names the connection ("imap", "ssl", "tls"), ok whether the
\* operation succeeded.
Ev(c, op, ok) == [c |-> c, op |-> op, ok |-> ok]

\* The steps of an attempt that are executed when step f is the first to
\* fail (all of them when f = 0).
Executed(c, steps, f) ==
  [j \in 1..(IF f = 0 THEN Len(steps) ELSE f) |-> Ev(c, steps[j], j # f)]

\* test_imap, lines 30-41.  Leaving the with block by an exception after
\* the connection was made issues the logout of IMAP4.__exit__.
imap_ops(e, verbose) ==
  LET f == FirstFail(ImapSteps, e.imap, e, verbose)
  IN  <<Ev("imap", "try", TRUE)>>
      \o Executed("imap", ImapSteps, f)
      \o (IF f > 2 /\ ImapSteps[f] # "logout"
          THEN <<Ev("imap", "logout", TRUE)>> ELSE <<>>)
      \o <<Ev("imap", "return", TRUE)>>

\* test_smtp, lines 45-70.  Nothing is issued on a connection whose
\* attempt failed: the except handlers neither quit nor close it.
smtp_ops(e, verbose) ==
  LET f1 == FirstFail(SslSteps, e.ssl, e, verbose)
      f2 == FirstFail(TlsSteps, e.tls, e, verbose)
  IN  <<Ev("ssl", "try", TRUE)>>
      \o Executed("ssl", SslSteps, f1)
      \o (IF f1 = 0
          THEN <<Ev("ssl", "quit", e.ssl # "quit"), Ev("smtp", "return", TRUE)>>
          ELSE IF verbose /\ e.log = "log56"
          THEN <<Ev("smtp", "log56", FALSE)>>
          ELSE <<Ev("smtp", "log56", TRUE), Ev("tls", "try", TRUE)>>
               \o Executed("tls", TlsSteps, f2)
               \o (IF f2 = 0 THEN <<Ev("tls", "quit", e.tls # "quit")>> ELSE <<>>)
               \o <<Ev("smtp", "return", TRUE)>>)

\* -------------------------------------------------------------- test_one
\* The dict test_one returns for the valid pair v.
TestOneReturn(v, imap, smtp, dt) ==
  [email |-> v.email,
   imap_ok |-> imap[1], imap_error |-> imap[2],
   smtp_ok |-> smtp.ok, smtp_error |-> smtp.err,
   elapsed_s |-> dt,
   row |-> v.row]

\* ----------------------------------------------------------- post_result
\* Mutant: the new result put in front.
PostPrepend(res, r) == <<r>> \o res

\* Mutant: the cooldown taken when either probe is ok.
PostSleepEitherOk(a, r) ==
  IF a.delay_on_success # 0 /\ (r.imap_ok \/ r.smtp_ok)
  THEN a.delay_on_success * TicksPerSecond
  ELSE 0

\* results.append(r)
PostAppend(res, r) == Append(res, r)

\* time.sleep(args.delay_on_success) after a result with both probes ok.
PostSleep(a, r) ==
  IF a.delay_on_success # 0 /\ r.imap_ok /\ r.smtp_ok
  THEN a.delay_on_success * TicksPerSecond
  ELSE 0

\* ---------------------------------------------------------- write_report
OkFail(b) == IF b THEN "OK" ELSE "FAIL"

ResultRow(r) ==
  [cols |-> <<r.email, OkFail(r.imap_ok), r.imap_error,
              OkFail(r.smtp_ok), r.smtp_error, <<r.elapsed_s>>>>,
   row |-> r.row]

SkipRow(s) ==
  [cols |-> <<s.email, "SKIP", s.reason, "SKIP", s.reason, <<>>>>,
   row |-> s.row]

RECURSIVE MapRows(_, _, _)
MapRows(seq, k, kind) ==
  IF k > Len(seq) THEN <<>>
  ELSE <<IF kind = "result" THEN ResultRow(seq[k]) ELSE SkipRow(seq[k])>>
       \o MapRows(seq, k + 1, kind)

\* The data rows write_report writes after the header.
write_report(res, skipped) ==
  MapRows(res, 1, "result") \o MapRows(skipped, 1, "skip")

\* ------------------------------------------------------------ scheduler
\* Mutant: a non-positive concurrency replaced by the library's default
\* pool size instead of 1.
max_workers_default(c) == IF c >= 1 THEN c ELSE 2

\* ThreadPoolExecutor(max_workers=max(1, args.concurrency))
max_workers(c) == Max(1, c)

\* Mutant: the dict keyed by email, so that a later pair with the same email
\* replaces the earlier future.
FutKeysByEmail(fs) ==
  {f \in 1..Len(fs) :
     ~\E g \in 1..Len(fs) : g > f /\ fs[g].email = fs[f].email}

\* The keys of the dict futs: one future per submit, whatever the emails.
FutKeys(fs) == 1..Len(fs)

\* ----------------------------------------------------------------- state
VARIABLES
  args,            \* the parsed command line
  table,           \* the rows csv.DictReader yields
  env,             \* per data row: what fails when its credential is probed
  valid_accounts,
  skipped_rows,
  results,
  report,          \* the data rows of the written report
  pc,              \* where main is
  idx,             \* loop index of main (sequential loop, submit loop)
  run,             \* per thread: the test_one it is running, its sleep
  queue,           \* the pool's work queue (future ids, FIFO)
  futs,            \* the futures, in submit order
  waiter,          \* as_completed: installed?, futures finished since
  initial,         \* as_completed: futures already finished at the call
  pending,         \* as_completed: futures not yet yielded
  started,         \* bookkeeping: valid-pair indexes in test_one start order
  since_post       \* bookkeeping: ticks main slept since its last post_result

vars == <<args, table, env, valid_accounts, skipped_rows, results, report,
          pc, idx, run, queue, futs, waiter, initial, pending, started,
          since_post>>

MAIN == 0
Workers == 1..Max(2, MaxConcurrency)
Threads == {MAIN} \cup Workers

Idle == [pc |-> "idle", item |-> 0, imap |-> <<FALSE, <<>>>>,
         smtp |-> [kind |-> "return", ok |-> FALSE, err |-> <<>>],
         sleep |-> 0, elapsed |-> 0, ops |-> <<>>]

\* ---------------------------------------------------------------- inputs
OkEnv == [imap |-> "none", ssl |-> "none", tls |-> "none", log |-> "none"]

\* Environments of the scheduling runs: all fine; IMAP login refused;
\* both SMTP logins refused; SSL login refused and the print of line 56
\* raising (it raises only under --verbose).
SchedEnvs ==
  {OkEnv,
   [OkEnv EXCEPT !.imap = "login"],
   [OkEnv EXCEPT !.ssl = "login", !.tls = "login"],
   [OkEnv EXCEPT !.ssl = "login", !.log = "log56"]}

Row(e, p) == [email |-> e, app_password |-> p]

SchedRows ==
  {Row(<<"a">>, <<"p">>), Row(<<" ", "b">>, <<"p", " ">>),
   Row(<<>>, <<"p">>)}

TablesOver(kinds) == UNION {[1..n -> kinds] : n \in 0..MaxRows}

ArgSets ==
  [sequential : BOOLEAN, concurrency : -1..MaxConcurrency,
   delay_on_success : 0..MaxDelay, verbose : BOOLEAN]

InitFrom(A, T, E1, E) ==
  /\ args \in A
  /\ table \in T
  /\ env \in {e \in [1..Len(table) -> E1 \cup E] :
                \A k \in 1..Len(table) :
                  /\ k > 1 => e[k] \in E
                  /\ IsSkip(table[k]) => e[k] = OkEnv
                  /\ ~args.verbose => e[k].log = "none"}
  /\ valid_accounts = <<>>
  /\ skipped_rows = <<>>
  /\ results = <<>>
  /\ report = <<>>
  /\ pc = "read"
  /\ idx = 0
  /\ run = [t \in Threads |-> Idle]
  /\ queue = <<>>
  /\ futs = <<>>
  /\ waiter = [installed |-> FALSE, finished |-> <<>>]
  /\ initial = {}
  /\ pending = {}
  /\ started = <<>>
  /\ since_post = 0

Init == InitFrom(ArgSets, TablesOver(SchedRows), SchedEnvs, SchedEnvs)

\* Inputs of the classification runs: every kind of field (absent, empty,
\* blank, padded, plain), few environments.
EmailFields == {None, <<>>, <<" ">>, <<"a">>, <<" ", "b", "\t">>}
PwFields == {None, <<" ", "\t">>, <<"p">>, <<"\t", "p", " ">>}
ClassRows == {Row(e, p) : e \in EmailFields, p \in PwFields}
CrashEnv == [OkEnv EXCEPT !.ssl = "login", !.log = "log56"]
ClassArgs ==
  [sequential : BOOLEAN, concurrency : {MaxConcurrency},
   delay_on_success : {0}, verbose : BOOLEAN]

InitRows == InitFrom(ClassArgs, TablesOver(ClassRows), {OkEnv, CrashEnv}, {OkEnv})

\* Inputs of the probe runs: two valid pairs, the first one probed in every
\* environment.
AllEnvs ==
  [imap : {"none", "connect", "login", "noop", "logout"},
   ssl : {"none", "connect", "login", "quit"},
   tls : {"none", "connect", "ehlo1", "starttls", "ehlo2", "login", "quit"},
   log : {"none", "log31", "log34", "log36", "log46", "log48", "log56", "log62"}]
ProbeTable == <<Row(<<"a">>, <<"p">>), Row(<<"b">>, <<"p">>)>>
ProbeArgs ==
  [sequential : BOOLEAN, concurrency : {1},
   delay_on_success : {0}, verbose : BOOLEAN]

InitProbe == InitFrom(ProbeArgs, {ProbeTable}, AllEnvs, {OkEnv})

\* -------------------------------------------------------------- actions
\* main, lines 141-159: read_accounts, then the choice of the branch.
ReadAccounts ==
  /\ pc = "read"
  /\ valid_accounts' = ReadValid(table, 1)
  /\ skipped_rows' = ReadSkipped(table, 1)
  /\ idx' = 1
  /\ pc' = IF args.sequential \/ Len(valid_accounts') <= 1
           THEN "seq" ELSE "submit"
  /\ UNCHANGED <<args, table, env, results, report, run, queue, futs,
                 waiter, initial, pending, started, since_post>>

\* Sequential branch, lines 160-162: the next pair's test_one begins on the
\* main thread, once the sleep of the previous post_result is over; after
\* the last pair the loop ends.
SeqNext ==
  /\ pc = "seq"
  /\ run[MAIN].sleep = 0
  /\ IF idx <= Len(valid_accounts)
     THEN /\ run' = [run EXCEPT ![MAIN] = [Idle EXCEPT !.pc = "imap", !.item = idx]]
          /\ started' = Append(started, idx)
          /\ pc' = "seq_test"
     ELSE /\ pc' = "write"
          /\ UNCHANGED <<run, started>>
  /\ UNCHANGED <<args, table, env, valid_accounts, skipped_rows, results,
                 report, idx, queue, futs, waiter, initial, pending,
                 since_post>>

\* test_one, line 74 and the start of line 75: Probe A, then the pause.
TestImap(t) ==
  /\ run[t].pc = "imap"
  /\ LET v == valid_accounts[run[t].item]
     IN  run' = [run EXCEPT ![t].imap = test_imap(env[v.row], args.verbose),
                            ![t].ops = imap_ops(env[v.row], args.verbose),
                            ![t].pc = "pause",
                            ![t].sleep = InterProtoPause]
  /\ UNCHANGED <<args, table, env, valid_accounts, skipped_rows, results,
                 report, pc, idx, queue, futs, waiter, initial, pending,
                 started, since_post>>

\* One tick of a sleeping thread (time.sleep of line 75 or line 157).
Tick(t) ==
  /\ run[t].sleep > 0
  /\ run' = [run EXCEPT ![t].sleep = @ - 1,
                        ![t].elapsed = IF run[t].pc = "pause" THEN @ + 1 ELSE @]
  /\ since_post' = IF t = MAIN THEN since_post + 1 ELSE since_post
  /\ UNCHANGED <<args, table, env, valid_accounts, skipped_rows, results,
                 report, pc, idx, queue, futs, waiter, initial, pending,
                 started>>

\* Mutant: Probe B left out when Probe A failed.
TestSmtpUnlessImapFailed(t) ==
  /\ run[t].pc = "pause"
  /\ run[t].sleep = 0
  /\ LET v == valid_accounts[run[t].item]
         b == test_smtp(env[v.row], args.verbose)
     IN  IF run[t].imap[1]
         THEN run' = [run EXCEPT ![t].smtp = b,
                        ![t].ops = @ \o smtp_ops(env[v.row], args.verbose),
                        ![t].pc = IF b.kind = "raise" THEN "raised" ELSE "ret"]
         ELSE run' = [run EXCEPT ![t].pc = "ret"]
  /\ UNCHANGED <<args, table, env, valid_accounts, skipped_rows, results,
                 report, pc, idx, queue, futs, waiter, initial, pending,
                 started, since_post>>

\* test_one, line 76: Probe B after the pause; it returns or raises.
TestSmtp(t) ==
  /\ run[t].pc = "pause"
  /\ run[t].sleep = 0
  /\ LET v == valid_accounts[run[t].item]
         b == test_smtp(env[v.row], args.verbose)
     IN  run' = [run EXCEPT ![t].smtp = b,
                            ![t].ops = @ \o smtp_ops(env[v.row], args.verbose),
                            ![t].pc = IF b.kind = "raise" THEN "raised" ELSE "ret"]
  /\ UNCHANGED <<args, table, env, valid_accounts, skipped_rows, results,
                 report, pc, idx, queue, futs, waiter, initial, pending,
                 started, since_post>>

\* Mutant: the email read from the loop variable of the submit loop (the
\* last pair) instead of the call's own argument.
ReturnedLateBound(t) ==
  TestOneReturn([valid_accounts[run[t].item] EXCEPT
                   !.email = valid_accounts[Len(valid_accounts)].email],
                run[t].imap, run[t].smtp, run[t].elapsed)

\* The dict the test_one of thread t returns.
Returned(t) ==
  TestOneReturn(valid_accounts[run[t].item], run[t].imap, run[t].smtp,
                run[t].elapsed)

\* Sequential branch, line 163: post_result(r) of the returned dict; its
\* sleep keeps the main thread from the next pair.
SeqPost ==
  /\ pc = "seq_test"
  /\ run[MAIN].pc = "ret"
  /\ results' = PostAppend(results, Returned(MAIN))
  /\ run' = [run EXCEPT ![MAIN] =
               [Idle EXCEPT !.sleep = PostSleep(args, Returned(MAIN))]]
  /\ since_post' = 0
  /\ idx' = idx + 1
  /\ pc' = "seq"
  /\ UNCHANGED <<args, table, env, valid_accounts, skipped_rows, report,
                 queue, futs, waiter, initial, pending, started>>

\* Sequential branch: an exception leaving test_one leaves main (there is
\* no handler at lines 160-163 nor around main()).
SeqRaise ==
  /\ pc = "seq_test"
  /\ run[MAIN].pc = "raised"
  /\ run' = [run EXCEPT ![MAIN] = Idle]
  /\ pc' = "crashed"
  /\ UNCHANGED <<args, table, env, valid_accounts, skipped_rows, results,
                 report, idx, queue, futs, waiter, initial, pending, started,
                 since_post>>

\* Concurrent branch, lines 166-167: one pool.submit per pair, in input
\* order; after the last one main calls as_completed.
Submit ==
  /\ pc = "submit"
  /\ IF idx <= Len(valid_accounts)
     THEN /\ futs' = Append(futs, [item |-> idx,
                                   email |-> valid_accounts[idx].email,
                                   state |-> "pending", rank |-> 0,
                                   exc |-> FALSE, result |-> <<>>])
          /\ queue' = Append(queue, Len(futs) + 1)
          /\ idx' = idx + 1
          /\ pc' = "submit"
     ELSE /\ pc' = "as_completed"
          /\ UNCHANGED <<futs, queue, idx>>
  /\ UNCHANGED <<args, table, env, valid_accounts, skipped_rows, results,
                 report, run, waiter, initial, pending, started, since_post>>

\* Mutant: the pool threads hold back while main sleeps its cooldown.
WorkerTakeThrottled(w) ==
  /\ w \in Workers
  /\ w <= max_workers(args.concurrency)
  /\ run[MAIN].sleep = 0
  /\ run[w].pc = "idle"
  /\ queue # <<>>
  /\ LET f == Head(queue)
     IN  /\ run' = [run EXCEPT ![w] = [Idle EXCEPT !.pc = "imap",
                                                  !.item = futs[f].item]]
         /\ futs' = [futs EXCEPT ![f].state = "running"]
         /\ started' = Append(started, futs[f].item)
  /\ queue' = Tail(queue)
  /\ UNCHANGED <<args, table, env, valid_accounts, skipped_rows, results,
                 report, pc, idx, waiter, initial, pending, since_post>>

\* A pool thread takes the oldest work item and begins its test_one.  The
\* pool has max_workers threads.
WorkerTake(w) ==
  /\ w \in Workers
  /\ w <= max_workers(args.concurrency)
  /\ run[w].pc = "idle"
  /\ queue # <<>>
  /\ LET f == Head(queue)
     IN  /\ run' = [run EXCEPT ![w] = [Idle EXCEPT !.pc = "imap",
                                                  !.item = futs[f].item]]
         /\ futs' = [futs EXCEPT ![f].state = "running"]
         /\ started' = Append(started, futs[f].item)
  /\ queue' = Tail(queue)
  /\ UNCHANGED <<args, table, env, valid_accounts, skipped_rows, results,
                 report, pc, idx, waiter, initial, pending, since_post>>

\* The future whose work item thread w runs.
FutureOf(w) == CHOOSE f \in 1..Len(futs) :
                 futs[f].state = "running" /\ futs[f].item = run[w].item

\* test_one returned or raised in a pool thread: the future gets its
\* result or its exception and as_completed's waiter, if installed, is
\* told, in completion order.  "rank" is bookkeeping of the model: the
\* position of the future in the order of completion.
WorkerFinish(w) ==
  /\ w \in Workers
  /\ run[w].pc \in {"ret", "raised"}
  /\ LET f == FutureOf(w)
     IN  /\ futs' = [futs EXCEPT ![f].state = "finished",
                                 ![f].rank = 1 + Cardinality(
                                   {g \in 1..Len(futs) : futs[g].state = "finished"}),
                                 ![f].exc = (run[w].pc = "raised"),
                                 ![f].result = IF run[w].pc = "ret"
                                               THEN <<Returned(w)>> ELSE <<>>]
         /\ waiter' = IF waiter.installed /\ f \in pending
                      THEN [waiter EXCEPT !.finished = Append(@, f)]
                      ELSE waiter
  /\ run' = [run EXCEPT ![w] = Idle]
  /\ UNCHANGED <<args, table, env, valid_accounts, skipped_rows, results,
                 report, pc, idx, queue, initial, pending, started,
                 since_post>>

\* Line 168, the call of as_completed(futs): the futures already finished
\* are set aside (they are yielded first, in the iteration order of a set),
\* and a waiter is installed on all of them.
AsCompleted ==
  /\ pc = "as_completed"
  /\ initial' = {f \in FutKeys(futs) : futs[f].state = "finished"}
  /\ pending' = FutKeys(futs)
  /\ waiter' = [installed |-> TRUE, finished |-> <<>>]
  /\ pc' = "collect"
  /\ UNCHANGED <<args, table, env, valid_accounts, skipped_rows, results,
                 report, idx, run, queue, futs, started, since_post>>

\* Lines 168-170, one iteration: as_completed yields a future, fut.result()
\* returns its dict or raises its exception, post_result(r) appends it.
\* The iteration starts once the sleep of the previous post_result is over.
Collect ==
  /\ pc = "collect"
  /\ run[MAIN].sleep = 0
  /\ pending # {}
  /\ \E f \in pending :
       /\ IF initial # {} THEN f \in initial
          ELSE waiter.finished # <<>> /\ f = Head(waiter.finished)
       /\ initial' = initial \ {f}
       /\ waiter' = IF initial # {} THEN waiter
                    ELSE [waiter EXCEPT !.finished = Tail(@)]
       /\ pending' = pending \ {f}
       /\ IF futs[f].exc
          THEN /\ pc' = "unwind"
               /\ UNCHANGED <<results, run, since_post>>
          ELSE /\ results' = PostAppend(results, futs[f].result[1])
               /\ run' = [run EXCEPT ![MAIN].sleep =
                            PostSleep(args, futs[f].result[1])]
               /\ since_post' = 0
               /\ pc' = "collect"
  /\ UNCHANGED <<args, table, env, valid_accounts, skipped_rows, report,
                 idx, queue, futs, started>>

\* The loop of line 168 ends when every future was yielded.
CollectEnd ==
  /\ pc = "collect"
  /\ run[MAIN].sleep = 0
  /\ pending = {}
  /\ pc' = "shutdown"
  /\ UNCHANGED <<args, table, env, valid_accounts, skipped_rows, results,
                 report, idx, run, queue, futs, waiter, initial, pending,
                 started, since_post>>

\* Leaving the with block of line 165: shutdown(wait=True) returns when the
\* queue is drained and every pool thread is idle; then main goes on to
\* write_report, or the exception of fut.result() leaves main.
PoolExit ==
  /\ pc \in {"shutdown", "unwind"}
  /\ queue = <<>>
  /\ \A w \in Workers : run[w].pc = "idle"
  /\ pc' = IF pc = "shutdown" THEN "write" ELSE "crashed"
  /\ UNCHANGED <<args, table, env, valid_accounts, skipped_rows, results,
                 report, idx, run, queue, futs, waiter, initial, pending,
                 started, since_post>>

\* Line 172: write_report(args.out, results, skipped_rows).
WriteReport ==
  /\ pc = "write"
  /\ report' = write_report(results, skipped_rows)
  /\ pc' = "done"
  /\ UNCHANGED <<args, table, env, valid_accounts, skipped_rows, results,
                 idx, run, queue, futs, waiter, initial, pending, started,
                 since_post>>

Next ==
  \/ ReadAccounts
  \/ SeqNext
  \/ SeqPost
  \/ SeqRaise
  \/ Submit
  \/ AsCompleted
  \/ Collect
  \/ CollectEnd
  \/ PoolExit
  \/ WriteReport
  \/ \E t \in Threads : TestImap(t)
  \/ \E t \in Threads : Tick(t)
  \/ \E t \in Threads : TestSmtp(t)
  \/ \E w \in Workers : WorkerTake(w)
  \/ \E w \in Workers : WorkerFinish(w)

Spec == Init /\ [][Next]_vars
SpecRows == InitRows /\ [][Next]_vars
SpecProbe == InitProbe /\ [][Next]_vars

\* ================================================================ claims
\* Helpers of the claims' formulas.
SeqMode == args.sequential \/ Len(valid_accounts) <= 1
ConcMode == pc # "read" /\ ~SeqMode
BothOk(r) == r.imap_ok /\ r.smtp_ok
InProgress == {t \in Threads : run[t].pc \in {"imap", "pause", "ret", "raised"}}
\* A field that is absent or holds nothing but whitespace.
Blank(x) == x = None \/ \A i \in 1..Len(x) : x[i] \in Whitespace

\* C1: the written report has exactly one row per input data row: as many
\* rows as valid pairs plus skip records, and every data row appears in it
\* exactly once, in sequential and in concurrent mode.
C1_OneRowPerInputRow ==
  pc = "done" =>
    /\ Len(report) = Len(table)
    /\ Len(report) = Len(valid_accounts) + Len(skipped_rows)
    /\ \A k \in 1..Len(table) :
         Cardinality({j \in 1..Len(report) : report[j].row = k}) = 1

\* C1 witness: a concurrent run over a table with two rows of the same
\* email and a skipped row has written its report.
C1_Witness ==
  /\ pc = "done"
  /\ ~args.sequential
  /\ Len(valid_accounts) = 2
  /\ valid_accounts[1].email = valid_accounts[2].email
  /\ Len(skipped_rows) = 1
  /\ Len(report) = 3

\* C2: a data row is reported SKIP/SKIP, with a non-empty reason in both
\* error columns and an empty elapsed_s, if and only if its email or its
\* app_password is blank; every other row is a valid pair with two
\* non-empty fields.  Sequential and concurrent runs alike.
C2_SkipIffBlank ==
  /\ pc # "read" =>
       /\ \A k \in 1..Len(table) :
            ~(Blank(table[k].email) \/ Blank(table[k].app_password))
              <=> \E j \in 1..Len(valid_accounts) : valid_accounts[j].row = k
       /\ \A j \in 1..Len(valid_accounts) :
            valid_accounts[j].email # <<>> /\ valid_accounts[j].pw # <<>>
  /\ pc = "done" =>
       \A j \in 1..Len(report) :
         LET r == table[report[j].row]
             c == report[j].cols
         IN  (/\ c[2] = "SKIP" /\ c[4] = "SKIP"
              /\ c[3] # <<>> /\ c[5] # <<>>
              /\ c[6] = <<>>)
             <=> (Blank(r.email) \/ Blank(r.app_password))

\* C2 witness: a concurrent run has reported a row whose email is only
\* whitespace as SKIP and a row with padded fields as a tested result.
C2_Witness ==
  /\ pc = "done"
  /\ ~SeqMode
  /\ \E j \in 1..Len(report) :
       /\ table[report[j].row].email = <<" ">>
       /\ report[j].cols[2] = "SKIP"
  /\ \E j \in 1..Len(report) :
       /\ table[report[j].row].email = <<" ", "b", "\t">>
       /\ report[j].cols[2] # "SKIP"

\* C3 (as claimed): an internal error raised while one credential is
\* probed never aborts the batch: main never ends by an exception, neither
\* out of the sequential loop nor out of fut.result().
C3_InternalErrorNeverAborts == pc \notin {"unwind", "crashed"}

\* C4: when test_smtp returns, ok is true with an empty detail if and only
\* if the login on 465 succeeded or the login on 587 succeeded; when it is
\* false the detail holds the cause of the first and of the second attempt.
C4_SmtpOkIffEitherLogin ==
  \A t \in Threads :
    run[t].pc = "ret" =>
      LET e == env[valid_accounts[run[t].item].row]
          v == args.verbose
          b == run[t].smtp
          sslLogin == /\ e.ssl \notin {"connect", "login"}
                      /\ ~(v /\ e.log \in {"log46", "log48"})
          tlsLogin == /\ e.tls \notin {"connect", "ehlo1", "starttls",
                                       "ehlo2", "login"}
                      /\ ~(v /\ e.log = "log62")
      IN  /\ (b.ok /\ b.err = <<>>) <=> (sslLogin \/ tlsLogin)
          /\ b.ok => b.err = <<>>
          /\ ~b.ok =>
               /\ Len(b.err) = 4
               /\ b.err[1] = "SSL:" /\ b.err[3] = "; STARTTLS:"
               /\ b.err[2] \in ({e.ssl, e.log} \ {"none"})
               /\ b.err[4] \in ({e.tls, e.log} \ {"none"})
               /\ \E i \in 1..Len(SslSteps) : SslSteps[i] = b.err[2]
               /\ \E i \in 1..Len(TlsSteps) : TlsSteps[i] = b.err[4]

\* C4 witnesses: Probe B has returned false after a refused login on 465
\* and a failed STARTTLS on 587; and it has returned true from the
\* fallback after a failed connect on 465.
C4_Witness ==
  \E t \in Threads :
    /\ run[t].pc = "ret"
    /\ ~run[t].smtp.ok
    /\ run[t].smtp.err = <<"SSL:", "login", "; STARTTLS:", "starttls">>

\* C5: in sequential mode the results are appended, and written to the
\* report, in the input order of the valid pairs, and the test_one of pair
\* i+1 starts only after the result of pair i was appended.
C5_SequentialInputOrder ==
  (pc # "read" /\ SeqMode) =>
    /\ Len(results) <= Len(valid_accounts)
    /\ \A j \in 1..Len(results) :
         /\ results[j].row = valid_accounts[j].row
         /\ results[j].email = valid_accounts[j].email
    /\ started = [j \in 1..Len(started) |-> j]
    /\ Len(started) <= Len(results) + 1
    /\ pc = "done" =>
         /\ Len(results) = Len(valid_accounts)
         /\ \A j \in 1..Len(results) : report[j].row = valid_accounts[j].row

\* C5 witness: a sequential run over three valid pairs is probing the
\* third one with two results appended.
C5_Witness ==
  /\ args.sequential
  /\ Len(valid_accounts) = 3
  /\ Len(started) = 3
  /\ Len(results) = 2
  /\ run[MAIN].pc = "pause"

\* What a result says of a credential: identity, Probe A, Probe B.
Outcome(r) == <<r.email, r.imap_ok, r.smtp_ok>>
\* The multiset of the outcomes of a sequence of results.
OutcomeBag(seq) ==
  [x \in {Outcome(seq[i]) : i \in 1..Len(seq)} |->
     Cardinality({i \in 1..Len(seq) : Outcome(seq[i]) = x})]
\* The results of the sequential loop over the valid pairs: for each pair
\* in input order the dict of its test_one.
SequentialResults ==
  [j \in 1..Len(valid_accounts) |->
     TestOneReturn(valid_accounts[j],
                   test_imap(env[valid_accounts[j].row], args.verbose),
                   test_smtp(env[valid_accounts[j].row], args.verbose),
                   InterProtoPause)]

\* C6: a concurrent run that finishes has emitted the same multiset of
\* (identity, Probe A, Probe B) as the sequential loop emits for the same
\* input and the same probe outcomes, whatever the interleaving.
C6_ConcurrentSameMultiset ==
  (pc = "done" /\ ~SeqMode) =>
    OutcomeBag(results) = OutcomeBag(SequentialResults)

\* C6 witness: a finished concurrent run whose results are not in input
\* order and differ in outcome.
C6_Witness ==
  /\ pc = "done"
  /\ ~SeqMode
  /\ Len(results) = 3
  /\ results[1].row = valid_accounts[3].row
  /\ results[1].imap_ok /\ ~results[2].imap_ok

\* C7: in concurrent mode at most max(1, concurrency) test_one calls are in
\* progress, for every concurrency value, zero and negative included.
C7_AtMostMaxWorkersInProgress ==
  ConcMode =>
    Cardinality(InProgress) <=
      (IF args.concurrency >= 1 THEN args.concurrency ELSE 1)

\* C7 witness: with a negative concurrency one test_one runs while another
\* pair waits in the queue.
C7_Witness ==
  /\ ConcMode
  /\ args.concurrency < 0
  /\ Cardinality(InProgress) = 1
  /\ queue # <<>>

\* C8 (as claimed): with concurrency=1, no --sequential and two or more
\* valid pairs, the pairs are probed one at a time in input order and the
\* results are appended in input order.
C8_SingleWorkerInputOrder ==
  (pc # "read" /\ ~SeqMode /\ args.concurrency = 1) =>
    /\ started = [j \in 1..Len(started) |-> j]
    /\ Cardinality(InProgress) <= 1
    /\ \A j \in 1..Len(results) : results[j].row = valid_accounts[j].row

\* C9: in sequential mode with a cooldown D > 0, Probe A of the next pair
\* begins only when main has slept the D seconds since a result with both
\* probes ok; after a result with a failed probe main does not sleep.
C9_CooldownBeforeNextPair ==
  (pc # "read" /\ SeqMode /\ args.delay_on_success > 0 /\ results # <<>>) =>
    LET last == results[Len(results)]
    IN  /\ (run[MAIN].pc = "imap" /\ BothOk(last)) =>
              since_post >= args.delay_on_success * TicksPerSecond
        /\ (pc = "seq" /\ ~BothOk(last)) =>
              run[MAIN].sleep = 0 /\ since_post = 0

\* C9 witness: Probe A of the second pair is about to begin after the
\* cooldown that followed a fully successful first pair.
C9_Witness ==
  /\ args.sequential
  /\ args.delay_on_success > 0
  /\ Len(results) = 1
  /\ BothOk(results[1])
  /\ run[MAIN].pc = "imap"
  /\ run[MAIN].item = 2

\* C10: in concurrent mode the cooldown holds back only main: while main
\* sleeps in post_result every pool thread can take the next pair, run its
\* probes and complete its future; and when the loop of as_completed has
\* ended every future's result was appended.
C10_CooldownBlocksOnlyCollector ==
  /\ (pc = "collect" /\ run[MAIN].sleep > 0) =>
       \A w \in Workers :
         /\ (w <= (IF args.concurrency >= 1 THEN args.concurrency ELSE 1)
               /\ run[w].pc = "idle" /\ queue # <<>>) => ENABLED WorkerTake(w)
         /\ run[w].pc = "imap" => ENABLED TestImap(w)
         /\ (run[w].pc = "pause" /\ run[w].sleep > 0) => ENABLED Tick(w)
         /\ (run[w].pc = "pause" /\ run[w].sleep = 0) => ENABLED TestSmtp(w)
         /\ run[w].pc \in {"ret", "raised"} => ENABLED WorkerFinish(w)
  /\ (pc \in {"shutdown", "write", "done"} /\ ~SeqMode) =>
       \A f \in 1..Len(futs) :
         /\ futs[f].state = "finished"
         /\ \E j \in 1..Len(results) : results[j] = futs[f].result[1]

\* C10 witness: main sleeps after a fully successful result while a pool
\* thread is idle with a pair still queued, and another result has
\* completed during the wait.
C10_Witness ==
  /\ pc = "collect"
  /\ run[MAIN].sleep > 0
  /\ queue # <<>>
  /\ waiter.finished # <<>>
  /\ \E w \in Workers : run[w].pc = "idle" /\ ENABLED WorkerTake(w)

\* Helpers of the probe claims: positions of an operation in a trace.
Positions(ops, c, op) == {i \in 1..Len(ops) : ops[i].c = c /\ ops[i].op = op}
ImapConns == {"imap"}
SmtpConns == {"ssl", "tls", "smtp"}

\* C11: within one test_one, Probe A has returned before anything of
\* Probe B happens, and Probe B is entered exactly once whether Probe A
\* succeeded or failed.
C11_ProbeAThenProbeBOnce ==
  \A t \in Threads :
    /\ run[t].pc \in {"ret", "raised"} =>
         /\ Cardinality(Positions(run[t].ops, "imap", "try")) = 1
         /\ Cardinality(Positions(run[t].ops, "imap", "return")) = 1
         /\ Cardinality(Positions(run[t].ops, "ssl", "try")) = 1
         /\ \A i, j \in 1..Len(run[t].ops) :
              (run[t].ops[i].c \in ImapConns /\ run[t].ops[j].c \in SmtpConns)
                => i < j
    /\ run[t].pc \in {"imap", "pause"} =>
         \A i \in 1..Len(run[t].ops) : run[t].ops[i].c \in ImapConns

\* C11 witness: Probe B has run after a Probe A that failed.
C11_Witness ==
  \E t \in Threads :
    /\ run[t].pc = "ret"
    /\ ~run[t].imap[1]
    /\ Cardinality(Positions(run[t].ops, "ssl", "try")) = 1
    /\ run[t].smtp.ok

\* C12: test_imap returns ok = true, with an empty detail, only if the
\* login and the NOOP were made and succeeded; a failing connect (TLS
\* included), login or NOOP gives ok = false with the cause as detail; and
\* test_imap always returns: an exception in a test_one comes from Probe B.
C12_ImapOkOnlyAfterLoginAndNoop ==
  \A t \in Threads :
    run[t].pc \in {"pause", "ret", "raised"} =>
      LET e == env[valid_accounts[run[t].item].row]
          a == run[t].imap
          o == run[t].ops
      IN  /\ a[1] =>
               /\ a[2] = <<>>
               /\ \E i \in Positions(o, "imap", "login") : o[i].ok
               /\ \E i \in Positions(o, "imap", "noop") : o[i].ok
               /\ e.imap \notin {"connect", "login", "noop"}
          /\ e.imap \in {"connect", "login", "noop"} =>
               /\ ~a[1]
               /\ Len(a[2]) = 1
               /\ a[2][1] \in ({e.imap, e.log} \ {"none"})
          /\ ~a[1] => a[2] # <<>>
          /\ Cardinality(Positions(o, "imap", "return")) = 1
          /\ run[t].pc = "raised" => run[t].smtp.kind = "raise"

\* C12 witness: Probe A has returned false with the cause of a NOOP that
\* failed after a successful login.
C12_Witness ==
  \E t \in Threads :
    /\ run[t].pc = "pause"
    /\ run[t].imap = <<FALSE, <<"noop">>>>
    /\ \E i \in Positions(run[t].ops, "imap", "login") : run[t].ops[i].ok

\* C13: in Probe B a quit() that fails after a successful login is
\* swallowed: the probe returns ok = true with an empty detail, and after
\* a login on 465 the STARTTLS attempt is not started.
C13_QuitFailureSwallowed ==
  \A t \in Threads :
    run[t].pc = "ret" =>
      LET o == run[t].ops
          b == run[t].smtp
          sslLogin == \E i \in Positions(o, "ssl", "login") : o[i].ok
          tlsLogin == \E i \in Positions(o, "tls", "login") : o[i].ok
          sslQuitFailed == \E i \in Positions(o, "ssl", "quit") : ~o[i].ok
          tlsQuitFailed == \E i \in Positions(o, "tls", "quit") : ~o[i].ok
      IN  /\ (sslLogin /\ sslQuitFailed) =>
               /\ b.ok /\ b.err = <<>>
               /\ Positions(o, "tls", "try") = {}
               /\ Positions(o, "tls", "connect") = {}
          /\ (tlsLogin /\ tlsQuitFailed) => (b.ok /\ b.err = <<>>)
          /\ sslLogin => Positions(o, "ssl", "quit") # {}
          /\ tlsLogin => Positions(o, "tls", "quit") # {}

\* C13 witness: Probe B has returned true although the quit() after the
\* login on 465 failed, in an environment where STARTTLS would fail.
C13_Witness ==
  \E t \in Threads :
    /\ run[t].pc = "ret"
    /\ env[valid_accounts[run[t].item].row].tls = "connect"
    /\ \E i \in Positions(run[t].ops, "ssl", "quit") : ~run[t].ops[i].ok
    /\ run[t].smtp.ok

\* The future a result came from, and its position in completion order.
FutureOfResult(r) ==
  CHOOSE f \in 1..Len(futs) : valid_accounts[futs[f].item].row = r.row
CompletionRank(r) == futs[FutureOfResult(r)].rank

\* C14 (as claimed): in concurrent mode the collected list is a sequence
\* of whole result records, each the dict of one finished future, in the
\* order in which the futures completed.
C14_WholeRecordsInCompletionOrder ==
  ConcMode =>
    /\ \A j \in 1..Len(results) :
         /\ futs[FutureOfResult(results[j])].state = "finished"
         /\ results[j] = futs[FutureOfResult(results[j])].result[1]
    /\ \A i, j \in 1..Len(results) :
         i < j => CompletionRank(results[i]) < CompletionRank(results[j])

\* C15 (as claimed): every run goes on until it has emitted a result for
\* every valid pair and written the report: a run that can take no further
\* step has written the report, with one result per valid pair.
C15_RunEndsWithReport ==
  /\ (ENABLED Next) \/ pc = "done"
  /\ pc = "done" => Len(results) = Len(valid_accounts)

\* C16: a skipped row whose email is blank has the missing-email reason,
\* whether or not its app_password is blank too; the missing-app_password
\* reason is given only to a row with an email and a blank app_password.
C16_MissingEmailFirst ==
  \A j \in 1..Len(skipped_rows) :
    LET s == skipped_rows[j]
        r == table[s.row]
    IN  /\ Blank(r.email) => s.reason = <<"missing email">>
        /\ s.reason = <<"missing app_password">>
             <=> (~Blank(r.email) /\ Blank(r.app_password))
        /\ s.reason \in {<<"missing email">>, <<"missing app_password">>}

\* C16 witness: a row with both fields blank was skipped for its email and
\* a row with only the app_password blank for its app_password.
C16_Witness ==
  /\ \E j \in 1..Len(skipped_rows) :
       /\ Blank(table[skipped_rows[j].row].email)
       /\ Blank(table[skipped_rows[j].row].app_password)
       /\ skipped_rows[j].reason = <<"missing email">>
  /\ \E j \in 1..Len(skipped_rows) :
       skipped_rows[j].reason = <<"missing app_password">>

\* The email of x without the whitespace around it.
IsTrimOf(y, x) ==
  \E i, j \in 1..Len(x) :
    /\ i <= j
    /\ y = SubSeq(x, i, j)
    /\ x[i] \notin Whitespace /\ x[j] \notin Whitespace
    /\ \A m \in 1..Len(x) : (m < i \/ m > j) => x[m] \in Whitespace

\* C17: a skipped row with a blank email is reported as "(row N)" with N
\* its position counting the header as row 1 (k + 1 for the k-th data
\* row), whatever the rows before it; one with an email keeps its email.
C17_RowPlaceholder ==
  \A j \in 1..Len(skipped_rows) :
    LET s == skipped_rows[j]
        r == table[s.row]
    IN  /\ Blank(r.email) => s.email = <<"(row ", ToString(s.row + 1), ")">>
        /\ ~Blank(r.email) => IsTrimOf(s.email, r.email)
        /\ pc = "done" =>
             \E i \in 1..Len(report) :
               report[i].row = s.row /\ report[i].cols[1] = s.email

\* C17 witness: the third data row, after a valid and a skipped row, is
\* reported as "(row 4)", and a skipped row with a padded email under its
\* trimmed email.
C17_Witness ==
  /\ pc = "done"
  /\ Len(table) = 3
  /\ ~IsSkip(table[1])
  /\ table[2].email = <<" ", "b", "\t">> /\ Blank(table[2].app_password)
  /\ \E i \in 1..Len(report) :
       report[i].row = 2 /\ report[i].cols[1] = <<"b">>
  /\ \E i \in 1..Len(report) :
       report[i].row = 3 /\ report[i].cols[1] = <<"(row ", "4", ")">>

\* The successful occurrences of an operation in a trace.
Done(ops, c, op) == {i \in Positions(ops, c, op) : ops[i].ok}

\* A step inside the try block of the attempt on connection c failed (a
\* failing quit is outside of it).
AttemptFailed(ops, c) ==
  \E i \in 1..Len(ops) :
    ops[i].c = c /\ ~ops[i].ok /\ ops[i].op # "quit"

\* C18 (as claimed): per credential there is exactly one IMAP attempt and
\* exactly one attempt on 465, no connection is made twice, and when Probe
\* B is over the STARTTLS attempt was made iff the attempt on 465 failed;
\* a login in the STARTTLS attempt comes after EHLO, STARTTLS and a second
\* EHLO, each made once and completed, in that order.
C18_EachVariantOnceFallbackIffSslFailed ==
  \A t \in Threads :
    LET o == run[t].ops
        e == env[valid_accounts[run[t].item].row]
        sslFails == \/ e.ssl \in {"connect", "login"}
                    \/ args.verbose /\ e.log \in {"log46", "log48"}
    IN  /\ run[t].pc \in {"pause", "ret", "raised"} =>
             /\ Cardinality(Positions(o, "imap", "try")) = 1
             /\ Cardinality(Positions(o, "imap", "connect")) <= 1
             /\ Cardinality(Positions(o, "imap", "login")) <= 1
        /\ run[t].pc \in {"ret", "raised"} =>
             /\ Cardinality(Positions(o, "ssl", "try")) = 1
             /\ Cardinality(Positions(o, "ssl", "connect")) <= 1
             /\ Cardinality(Positions(o, "ssl", "login")) <= 1
             /\ Cardinality(Positions(o, "tls", "try")) <= 1
             /\ Cardinality(Positions(o, "tls", "connect")) <= 1
             /\ Cardinality(Positions(o, "tls", "login")) <= 1
             /\ AttemptFailed(o, "ssl") <=> sslFails
             /\ Positions(o, "tls", "try") # {} <=> AttemptFailed(o, "ssl")
             /\ \A i \in Positions(o, "tls", "login") :
                  \E a \in Done(o, "tls", "ehlo1"), b \in Done(o, "tls", "starttls"),
                     c \in Done(o, "tls", "ehlo2") :
                    /\ a < b /\ b < c /\ c < i
                    /\ \A x \in Positions(o, "tls", "try") : x < a
                    /\ Cardinality(Positions(o, "tls", "ehlo1")) = 1
                    /\ Cardinality(Positions(o, "tls", "starttls")) = 1
                    /\ Cardinality(Positions(o, "tls", "ehlo2")) = 1

\* The rows of the valid pairs whose test_one has begun.
StartedRows == {valid_accounts[started[j]].row : j \in 1..Len(started)}

\* C19: test_one is never begun for a row with a blank email or
\* app_password, and for no pair twice; every thread inside a test_one
\* works on a pair that has both; and when the run has written its report,
\* test_one was begun for every valid pair, in either mode.
C19_OnlyValidPairsProbedOnce ==
  /\ \A j \in 1..Len(started) :
       /\ started[j] \in 1..Len(valid_accounts)
       /\ ~Blank(table[valid_accounts[started[j]].row].email)
       /\ ~Blank(table[valid_accounts[started[j]].row].app_password)
       /\ \A m \in 1..Len(started) : started[m] = started[j] => m = j
  /\ \A j \in 1..Len(skipped_rows) : skipped_rows[j].row \notin StartedRows
  /\ \A t \in InProgress :
       /\ run[t].item \in {started[j] : j \in 1..Len(started)}
       /\ \A u \in InProgress : run[u].item = run[t].item => u = t
  /\ \A j \in 1..Len(results) : results[j].row \in StartedRows
  /\ pc = "done" =>
       /\ {started[j] : j \in 1..Len(started)} = 1..Len(valid_accounts)
       /\ StartedRows =
            {k \in 1..Len(table) :
               ~Blank(table[k].email) /\ ~Blank(table[k].app_password)}

\* C19 witness: a concurrent run over two valid pairs and a skipped row
\* between them has written its report.
C19_Witness ==
  /\ pc = "done"
  /\ ConcMode
  /\ Len(table) = 3
  /\ IsSkip(table[2])
  /\ Len(started) = 2
  /\ StartedRows = {1, 3}

\* The connections a trace has opened and not closed: a connect that
\* succeeded with no logout, quit or close issued on that connection after
\* it.  (The program calls quit() only after a login that succeeded, and
\* close() nowhere.)
OpenConns(ops) ==
  {c \in {"imap", "ssl", "tls"} :
     \E i \in Done(ops, c, "connect") :
       ~\E j \in (i + 1)..Len(ops) :
          ops[j].c = c /\ ops[j].op \in {"logout", "quit", "close"}}

\* C20 (as claimed): when the probes of a test_one have returned, every
\* connection they opened has had its logout, quit or close issued.
C20_NoConnectionLeftOpen ==
  \A t \in Threads :
    /\ run[t].pc \in {"pause", "ret"} => "imap" \notin OpenConns(run[t].ops)
    /\ run[t].pc = "ret" => OpenConns(run[t].ops) = {}

====
